---- MODULE Spec2Model ----
(***************************************************************************)
(* A model of the OWASP ASVS checklist generator: main.py runs repository  *)
(* preparation (repo_fetcher.py), the English and the Japanese export      *)
(* (csv_generator.py) and the merge of the two CSV files (csv_merger.py).  *)
(*                                                                         *)
(* Text is modelled as a sequence of one-character strings, so that the    *)
(* regular expression of _parse_req_id and the conversion of the captured  *)
(* groups by int() are computed and not assumed.                           *)
(***************************************************************************)
EXTENDS Integers, Sequences, FiniteSets, TLC

VARIABLES
    pc,         \* position of the run: which step of main (or which function) is next
    repoEn,     \* PROJECT_ROOT / ASVS is a directory
    repoJa,     \* PROJECT_ROOT / owasp-asvs-ja is a directory
    csvEn,      \* the file at config.CSV_EN_FINAL
    csvJa,      \* the file at config.CSV_JA_FINAL
    csvMerged,  \* the file at config.CSV_MERGED
    steps,      \* the steps main has started, in order
    gitLog,     \* the git commands run by _clone_or_update, in order, with their outcome
    exitCode,   \* the exit status of the process, -1 while it runs
    obs,        \* what main and the export steps have reported so far
    mlog,       \* what merge_csv_files did and reported in this run
    parseIn,    \* the argument of a call of _parse_req_id
    parseOut,   \* the value that call returned
    loaded      \* the two tables _load_and_prepare_csv returned to merge_csv_files

vars == <<pc, repoEn, repoJa, csvEn, csvJa, csvMerged, steps, gitLog, exitCode,
          obs, mlog, parseIn, parseOut, loaded>>

(***************************************************************************)
(* Bounds of the model.                                                    *)
(***************************************************************************)
\* longest text handed to _parse_req_id on its own
MaxIdLen == 7

\* most rows of the two CSV files given to merge_csv_files on its own, together
MaxRows == 3

\* most rows the export tool writes in a run of main
MaxExportRows == 1

(***************************************************************************)
(* Values.  A cell of a DataFrame is a str or a non-str (NaN, a number).   *)
(***************************************************************************)
Str(s) == [isStr |-> TRUE, s |-> s]

\* the missing value pandas puts where a cell is empty (a float, not a str)
NaN == [isStr |-> FALSE, s |-> <<>>]

\* a number read from a numeric column (an int or float, not a str)
NumberCell == [isStr |-> FALSE, s |-> <<"1">>]

Digits == {"0", "1", "2", "3", "4", "5", "6", "7", "8", "9"}

IsDigit(c) == c \in Digits

DigitVal(c) ==
    CASE c = "0" -> 0 [] c = "1" -> 1 [] c = "2" -> 2 [] c = "3" -> 3
      [] c = "4" -> 4 [] c = "5" -> 5 [] c = "6" -> 6 [] c = "7" -> 7
      [] c = "8" -> 8 [] c = "9" -> 9

\* int() of a (non-empty) run of decimal digits
RECURSIVE ToInt(_)
ToInt(ds) ==
    IF ds = <<>> THEN 0
    ELSE 10 * ToInt(SubSeq(ds, 1, Len(ds) - 1)) + DigitVal(ds[Len(ds)])

\* \d+ is greedy: the index just after the longest run of digits that starts at i
RECURSIVE DigitRunEnd(_, _)
DigitRunEnd(s, i) ==
    IF i <= Len(s) /\ IsDigit(s[i]) THEN DigitRunEnd(s, i + 1) ELSE i

\* re.match(r"V(\d+)\.(\d+)\.(\d+)", s): anchored at the start of s only
ReMatch(s) ==
    LET e1 == DigitRunEnd(s, 2)
        e2 == DigitRunEnd(s, e1 + 1)
        e3 == DigitRunEnd(s, e2 + 1)
    IN  IF /\ Len(s) >= 1 /\ s[1] = "V"
           /\ e1 > 2 /\ e1 <= Len(s) /\ s[e1] = "."
           /\ e2 > e1 + 1 /\ e2 <= Len(s) /\ s[e2] = "."
           /\ e3 > e2 + 1
        THEN [matched |-> TRUE,
              groups |-> <<SubSeq(s, 2, e1 - 1), SubSeq(s, e1 + 1, e2 - 1),
                           SubSeq(s, e2 + 1, e3 - 1)>>]
        ELSE [matched |-> FALSE, groups |-> <<>>]

\* a component of a sort key: an int n, or float("inf")
Fin(n) == [inf |-> FALSE, n |-> n]

Inf == [inf |-> TRUE, n |-> 0]

\* Python's < between two such numbers
NumLt(a, b) == IF a.inf THEN FALSE ELSE (b.inf \/ a.n < b.n)

\* Python's < between two triples: lexicographic
KeyLt(x, y) ==
    \/ NumLt(x[1], y[1])
    \/ x[1] = y[1] /\ NumLt(x[2], y[2])
    \/ x[1] = y[1] /\ x[2] = y[2] /\ NumLt(x[3], y[3])

Sentinel == <<Inf, Inf, Inf>>

\* _parse_req_id
ParseReqId(v) ==
    IF ~v.isStr THEN Sentinel
    ELSE LET m == ReMatch(v.s)
         IN  IF m.matched
             THEN <<Fin(ToInt(m.groups[1])), Fin(ToInt(m.groups[2])),
                    Fin(ToInt(m.groups[3]))>>
             ELSE Sentinel

(***************************************************************************)
(* Files and tables.  A CSV file is missing, zero-length, unparsable or a  *)
(* header with rows of cells; a cell of a file is text, the empty text     *)
(* included.  A DataFrame is a sequence of column labels and a sequence of *)
(* rows, each a sequence of cells in the order of the labels; NoFrame is   *)
(* Python's None.                                                          *)
(***************************************************************************)
Range(f) == {f[i] : i \in DOMAIN f}

\* the position of label c in cols
Pos(cols, c) == CHOOSE i \in DOMAIN cols : cols[i] = c

MissingFile == [kind |-> "missing", cols |-> <<>>, rows |-> <<>>]

EmptyFile == [kind |-> "empty", cols |-> <<>>, rows |-> <<>>]

\* a non-empty file pandas.read_csv raises on
GarbageFile == [kind |-> "garbage", cols |-> <<>>, rows |-> <<>>]

TableFile(cols, rows) == [kind |-> "table", cols |-> cols, rows |-> rows]

NoFrame == [present |-> FALSE, cols |-> <<>>, rows |-> <<>>]

Frame(cols, rows) == [present |-> TRUE, cols |-> cols, rows |-> rows]

FINAL_COLUMNS_ORDER ==
    <<"req_id", "chapter_id", "chapter_name_ja", "chapter_name_en", "section_id",
      "section_name_ja", "section_name_en", "req_description_ja",
      "req_description_en", "level1", "level2", "level3", "cwe", "nist">>

COMMON_COLS ==
    {"req_id", "chapter_id", "section_id", "level1", "level2", "level3", "cwe", "nist"}

\* str.strip() on the column labels that occur in the model
StripName(c) ==
    CASE c = " req_id " -> "req_id"
      [] c = "note " -> "note"
      [] OTHER -> c

\* the label _load_and_prepare_csv gives column c of the table of language lang
RenamedName(c, lang) ==
    IF c \in {"chapter_name", "section_name", "req_description"}
    THEN c \o "_" \o lang
    ELSE c

\* pandas.read_csv: an empty cell is read as NaN, any other cell as its text
ReadCsv(file) ==
    Frame(file.cols,
          [i \in 1..Len(file.rows) |->
              [j \in 1..Len(file.cols) |->
                  IF file.rows[i][j] = <<>> THEN NaN ELSE Str(file.rows[i][j])]])

\* LoadAndPrepareCsv without the renaming of the language columns
LoadWithoutRename(file, lang) ==
    IF file.kind # "table" THEN NoFrame
    ELSE LET df == ReadCsv(file)
             stripped == [j \in 1..Len(df.cols) |-> StripName(df.cols[j])]
         IN  IF "req_id" \notin Range(stripped) THEN NoFrame
             ELSE Frame(stripped, df.rows)

\* _load_and_prepare_csv
LoadAndPrepareCsv(file, lang) ==
    IF file.kind \in {"missing", "empty"} THEN NoFrame
    ELSE IF file.kind = "garbage" THEN NoFrame
    ELSE LET df == ReadCsv(file)
             stripped == [j \in 1..Len(df.cols) |-> StripName(df.cols[j])]
         IN  IF "req_id" \notin Range(stripped) THEN NoFrame
             ELSE Frame([j \in 1..Len(stripped) |-> RenamedName(stripped[j], lang)],
                        df.rows)

\* MergeKeys with the key column left out of the common columns
MergeKeysWithoutReqId(dfJa, dfEn) ==
    Range(dfJa.cols) \cap Range(dfEn.cols) \cap (COMMON_COLS \ {"req_id"})

\* set(df_ja.columns) & set(df_en.columns) & set(COMMON_COLS)
MergeKeys(dfJa, dfEn) == Range(dfJa.cols) \cap Range(dfEn.cols) \cap COMMON_COLS

Flatten(ss) ==
    LET F[i \in 0..Len(ss)] == IF i = 0 THEN <<>> ELSE F[i - 1] \o ss[i]
    IN  F[Len(ss)]

\* pandas.merge(df_ja, df_en, on=keys, how="outer", suffixes=("_ja", "_en")).
\* Rows agree when all key cells are equal (NaN keys match each other); a
\* non-key label that both frames carry gets the suffix of its side; the
\* columns are those of the left frame, then the non-key ones of the right.
\* The rows are listed left rows first; the order pandas gives them is
\* replaced by the sort that follows.
OuterJoin(dfJa, dfEn, keys) ==
    LET jaSet == Range(dfJa.cols)
        enSet == Range(dfEn.cols)
        nJa == Len(dfJa.cols)
        \* the positions, in the right frame, of its non-key columns
        enRest == SelectSeq([j \in 1..Len(dfEn.cols) |-> j],
                            LAMBDA j : dfEn.cols[j] \notin keys)
        cols == [j \in 1..nJa |->
                    IF dfJa.cols[j] \notin keys /\ dfJa.cols[j] \in enSet
                    THEN dfJa.cols[j] \o "_ja" ELSE dfJa.cols[j]]
                \o [k \in 1..Len(enRest) |->
                    IF dfEn.cols[enRest[k]] \in jaSet
                    THEN dfEn.cols[enRest[k]] \o "_en" ELSE dfEn.cols[enRest[k]]]
        keyPos == {<<Pos(dfJa.cols, k), Pos(dfEn.cols, k)>> : k \in keys}
        \* for a left column, the position of the same key in the right frame, or 0
        keyIn == [j \in 1..nJa |->
                    IF dfJa.cols[j] \in keys THEN Pos(dfEn.cols, dfJa.cols[j]) ELSE 0]
        agree(rj, re) == \A p \in keyPos : rj[p[1]] = re[p[2]]
        rest(re) == [k \in 1..Len(enRest) |-> re[enRest[k]]]
        combine(rj, re) == rj \o rest(re)
        leftOnly(rj) == rj \o [k \in 1..Len(enRest) |-> NaN]
        rightOnly(re) ==
            [j \in 1..nJa |-> IF keyIn[j] = 0 THEN NaN ELSE re[keyIn[j]]] \o rest(re)
        forLeft(rj) ==
            LET ms == SelectSeq(dfEn.rows, LAMBDA re : agree(rj, re))
            IN  IF ms = <<>> THEN <<leftOnly(rj)>>
                ELSE [j \in 1..Len(ms) |-> combine(rj, ms[j])]
        unmatched == SelectSeq(dfEn.rows,
                               LAMBDA re : \A i \in 1..Len(dfJa.rows) :
                                              ~agree(dfJa.rows[i], re))
    IN  Frame(cols,
              Flatten([i \in 1..Len(dfJa.rows) |-> forLeft(dfJa.rows[i])])
              \o [j \in 1..Len(unmatched) |-> rightOnly(unmatched[j])])

\* SingleTable falling back to an empty table when neither file was loaded
SingleTableOrEmpty(dfJa, dfEn) ==
    IF dfJa.present THEN dfJa ELSE IF dfEn.present THEN dfEn ELSE Frame(<<>>, <<>>)

\* SingleTable preferring the English table to the Japanese one
SingleTableEnglishFirst(dfJa, dfEn) ==
    IF dfEn.present THEN dfEn ELSE IF dfJa.present THEN dfJa ELSE NoFrame

\* the table used when no join result exists: df_ja, else df_en, else none
SingleTable(dfJa, dfEn) ==
    IF dfJa.present THEN dfJa ELSE IF dfEn.present THEN dfEn ELSE NoFrame

\* insert the pair p = <<key, row>> into the sequence ps of pairs sorted by
\* key, after the pairs whose key is not greater
RECURSIVE InsertByKey(_, _)
InsertByKey(ps, p) ==
    IF ps = <<>> THEN <<p>>
    ELSE IF KeyLt(p[1], ps[Len(ps)][1])
    THEN Append(InsertByKey(SubSeq(ps, 1, Len(ps) - 1), p), ps[Len(ps)])
    ELSE Append(ps, p)

\* SortByReqId with the result of sort_values dropped
SortNotAssigned(df) == df

\* df.sort_values(by="req_id", key=lambda col: col.map(_parse_req_id)): the
\* key of every row is computed, and the rows are put in ascending key order
SortByReqId(df) ==
    LET k == Pos(df.cols, "req_id")
        keyed == [i \in 1..Len(df.rows) |-> <<ParseReqId(df.rows[i][k]), df.rows[i]>>]
        F[i \in 0..Len(keyed)] ==
            IF i = 0 THEN <<>> ELSE InsertByKey(F[i - 1], keyed[i])
        sorted == F[Len(keyed)]
    IN  Frame(df.cols, [i \in 1..Len(sorted) |-> sorted[i][2]])

\* Reindex that adds the missing final columns and leaves the others in place
ReindexAddingOnly(df) ==
    LET missing == SelectSeq(FINAL_COLUMNS_ORDER, LAMBDA c : c \notin Range(df.cols))
    IN  Frame(df.cols \o missing,
              [i \in 1..Len(df.rows) |->
                  df.rows[i] \o [k \in 1..Len(missing) |-> NaN]])

\* add the missing final columns as NA, then reindex(columns=FINAL_COLUMNS_ORDER)
Reindex(df) ==
    LET src == [j \in 1..Len(FINAL_COLUMNS_ORDER) |->
                  IF FINAL_COLUMNS_ORDER[j] \in Range(df.cols)
                  THEN Pos(df.cols, FINAL_COLUMNS_ORDER[j]) ELSE 0]
    IN  Frame(FINAL_COLUMNS_ORDER,
              [i \in 1..Len(df.rows) |->
                  [j \in 1..Len(FINAL_COLUMNS_ORDER) |->
                      IF src[j] = 0 THEN NaN ELSE df.rows[i][src[j]]]])

\* DataFrame.to_csv(index=False): the header, then a row per record; a
\* missing value is written as the empty text
ToCsv(df) ==
    TableFile(df.cols,
              [i \in 1..Len(df.rows) |->
                  [j \in 1..Len(df.cols) |->
                      IF df.rows[i][j] = NaN THEN <<>> ELSE df.rows[i][j].s]])

(***************************************************************************)
(* merge_csv_files.  Three calls into pandas are guarded by try/except in  *)
(* the code; whether each raises is an input of the run: joinRaises for    *)
(* pandas.merge (e.g. key columns of conflicting types), sortRaises for    *)
(* sort_values, saveRaises for the block that reindexes, creates the       *)
(* output directory and opens the file (taken before anything is written). *)
(***************************************************************************)
NoMergeLog ==
    [jaLoaded |-> FALSE, enLoaded |-> FALSE, joinTried |-> FALSE,
     joinRaised |-> FALSE, noKeyReturn |-> FALSE, used |-> "none",
     neitherError |-> FALSE, sortRaised |-> FALSE, saveReached |-> FALSE,
     saveRaised |-> FALSE, saved |-> FALSE]

\* merge_csv_files once both files are loaded: the file at CSV_MERGED
\* afterwards, and the log
MergeFrames(dfJa, dfEn, fMerged, joinRaises, sortRaises, saveRaises) ==
    LET both == dfJa.present /\ dfEn.present
        keys == MergeKeys(dfJa, dfEn)
        noKey == both /\ "req_id" \notin keys
        joinTried == both /\ ~noKey
        joined == joinTried /\ ~joinRaises
        dfMerged == IF joined THEN OuterJoin(dfJa, dfEn, keys)
                    ELSE SingleTable(dfJa, dfEn)
        log0 == [NoMergeLog EXCEPT !.jaLoaded = dfJa.present,
                                   !.enLoaded = dfEn.present,
                                   !.joinTried = joinTried,
                                   !.joinRaised = joinTried /\ joinRaises]
    IN  IF noKey
        THEN [file |-> fMerged, log |-> [log0 EXCEPT !.noKeyReturn = TRUE]]
        ELSE IF ~dfMerged.present
        THEN [file |-> fMerged, log |-> [log0 EXCEPT !.neitherError = TRUE]]
        ELSE LET sorted == IF sortRaises THEN dfMerged ELSE SortByReqId(dfMerged)
                 log1 == [log0 EXCEPT
                            !.used = IF joined THEN "join"
                                     ELSE IF dfJa.present THEN "ja" ELSE "en",
                            !.sortRaised = sortRaises,
                            !.saveReached = TRUE,
                            !.saveRaised = saveRaises,
                            !.saved = ~saveRaises]
             IN  [file |-> IF saveRaises THEN fMerged ELSE ToCsv(Reindex(sorted)),
                  log |-> log1]

(***************************************************************************)
(* The CSV files the model draws its inputs from.                          *)
(***************************************************************************)
\* req_id texts: two well-formed ones whose numeric and textual orders differ,
\* a malformed one, and the empty cell
IdV212 == <<"V", "2", ".", "1", ".", "2">>

IdV2110 == <<"V", "2", ".", "1", ".", "1", "0">>

IdBad == <<"V", "2", ".", "1">>

FullIds == {IdV212, IdV2110}

SparseIds == {IdV212, IdBad, <<>>}

CweTexts == {<<"7">>, <<"8">>}

\* the header the export tool writes
LayoutFull ==
    <<"req_id", "chapter_id", "chapter_name", "section_id", "section_name",
      "req_description", "level1", "level2", "level3", "cwe", "nist">>

\* a header with an untrimmed key label, few columns and one unknown column
LayoutSparse == <<" req_id ", "req_description", "note ">>

\* a header without the key column
LayoutNoKey == <<"chapter_id", "req_description">>

LangText(lang) == IF lang = "en" THEN <<"e", "n">> ELSE <<"j", "a">>

MkRow(layout, lang, id, cwe) ==
    [j \in 1..Len(layout) |->
        CASE layout[j] \in {"req_id", " req_id "} -> id
          [] layout[j] = "cwe" -> cwe
          [] layout[j] \in {"chapter_name", "section_name", "req_description", "note "} ->
                LangText(lang)
          [] OTHER -> <<"1">>]

FullRows(lang) == {MkRow(LayoutFull, lang, id, cwe) : id \in FullIds, cwe \in CweTexts}

SparseRows(lang) == {MkRow(LayoutSparse, lang, id, <<>>) : id \in SparseIds}

SeqsUpTo(S, n) == UNION {[1..k -> S] : k \in 0..n}

\* the tables of language lang with at most n rows
Tables(lang, n) ==
    {TableFile(LayoutFull, rows) : rows \in SeqsUpTo(FullRows(lang), n)}
    \cup {TableFile(LayoutSparse, rows) : rows \in SeqsUpTo(SparseRows(lang), n)}
    \cup {TableFile(LayoutNoKey, <<MkRow(LayoutNoKey, lang, <<>>, <<>>)>>)}

\* the files of language lang that can be at a CSV path, with at most n rows
Files(lang, n) == {MissingFile, EmptyFile, GarbageFile} \cup Tables(lang, n)

\* what an earlier run can have left at the Japanese CSV path: nothing, a
\* placeholder, or a one-row export
EarlierJaFiles ==
    {MissingFile, EmptyFile}
    \cup {TableFile(LayoutFull, <<r>>) : r \in FullRows("ja")}

\* a merged file left by an earlier run
StaleMerged ==
    TableFile(FINAL_COLUMNS_ORDER,
              <<[j \in 1..Len(FINAL_COLUMNS_ORDER) |-> <<"o", "l", "d">>]>>)

NoObs ==
    [mkdirRaised |-> FALSE, prepRaised |-> FALSE, enResult |-> "none",
     jaResult |-> "none", jaVersionDir |-> "unknown", touchRaised |-> FALSE]

NoParse == [done |-> FALSE, key |-> Sentinel]

\* before merge_csv_files has loaded the two files
NotLoaded == [ja |-> NoFrame, en |-> NoFrame]

(***************************************************************************)
(* repo_fetcher.py                                                         *)
(***************************************************************************)
\* CloneOrUpdate raising on a failed update as on a failed clone
CloneOrUpdateStrict(isDir, gitOk) ==
    IF isDir
    THEN [cmd |-> "pull", ok |-> gitOk, raised |-> ~gitOk, dirAfter |-> TRUE]
    ELSE [cmd |-> "clone", ok |-> gitOk, raised |-> ~gitOk, dirAfter |-> gitOk]

\* _clone_or_update on a repository whose local path is a directory or not
\* (isDir), where the git command it runs succeeds or not (gitOk): the
\* command, whether RuntimeError is raised, and whether the path is a
\* directory afterwards
CloneOrUpdate(isDir, gitOk) ==
    IF isDir
    THEN [cmd |-> "pull", ok |-> gitOk, raised |-> FALSE, dirAfter |-> TRUE]
    ELSE [cmd |-> "clone", ok |-> gitOk, raised |-> ~gitOk, dirAfter |-> gitOk]

\* the record of one git command: the repository, whether its path was a
\* directory before, the command and its outcome
GitEntry(repo, dirBefore, r) ==
    [repo |-> repo, dirBefore |-> dirBefore, cmd |-> r.cmd, ok |-> r.ok]

\* prepare_repositories: the English repository, then the Japanese one; a
\* RuntimeError of the first call leaves the second one out
PrepareRepositories(enDir, jaDir, enGitOk, jaGitOk) ==
    LET r1 == CloneOrUpdate(enDir, enGitOk)
        r2 == CloneOrUpdate(jaDir, jaGitOk)
    IN  IF r1.raised
        THEN [raised |-> TRUE, enDir |-> r1.dirAfter, jaDir |-> jaDir,
              log |-> <<GitEntry("en", enDir, r1)>>]
        ELSE [raised |-> r2.raised, enDir |-> r1.dirAfter, jaDir |-> r2.dirAfter,
              log |-> <<GitEntry("en", enDir, r1), GitEntry("ja", jaDir, r2)>>]

(***************************************************************************)
(* csv_generator.py                                                        *)
(***************************************************************************)
\* _try_remove_file: the file is unlinked when it exists
TryRemoveFile(f) == MissingFile

\* Path.touch(): creates a zero-length file, or leaves an existing file as it is
Touch(f) == IF f.kind = "missing" THEN EmptyFile ELSE f

\* _create_empty_ja_csv: mkdir and touch, an exception of either is caught
CreateEmptyJaCsv(f, touchRaises) == IF touchRaises THEN f ELSE Touch(f)

\* is_file() and st_size > 0
NonEmptyFile(f) == f.kind \in {"table", "garbage"}

\* generate_english_csv: versionDir and script are the two existence checks,
\* exportOk the outcome of the export command, output what the command wrote
\* to the redirected file
GenerateEnglishCsv(fEn, versionDir, script, exportOk, output) ==
    IF ~versionDir THEN [ok |-> FALSE, file |-> fEn]
    ELSE IF ~script THEN [ok |-> FALSE, file |-> fEn]
    ELSE IF ~exportOk THEN [ok |-> FALSE, file |-> TryRemoveFile(output)]
    ELSE IF NonEmptyFile(output) THEN [ok |-> TRUE, file |-> output]
    ELSE [ok |-> FALSE, file |-> TryRemoveFile(output)]

\* generate_japanese_csv
GenerateJapaneseCsv(fJa, versionDir, script, exportOk, output, touchRaises) ==
    IF ~versionDir THEN [ok |-> FALSE, file |-> CreateEmptyJaCsv(fJa, touchRaises)]
    ELSE IF ~script THEN [ok |-> FALSE, file |-> CreateEmptyJaCsv(fJa, touchRaises)]
    ELSE IF ~exportOk
    THEN [ok |-> FALSE, file |-> CreateEmptyJaCsv(TryRemoveFile(output), touchRaises)]
    ELSE IF NonEmptyFile(output) THEN [ok |-> TRUE, file |-> output]
    ELSE [ok |-> FALSE, file |-> CreateEmptyJaCsv(TryRemoveFile(output), touchRaises)]

\* what the export command can leave in the file its output is redirected to
ExportOutputs(lang) == {EmptyFile, GarbageFile} \cup Tables(lang, MaxExportRows)

\* the state of the redirected file after _run_command: untouched text is not
\* looked at when the command was not run (no file is opened) or failed (the
\* file is removed whatever it holds)
RunOutputs(lang, commandRun, exportOk) ==
    IF commandRun /\ exportOk THEN ExportOutputs(lang) ELSE {EmptyFile}

(***************************************************************************)
(* main.py: the steps of main, each a whole call.                          *)
(***************************************************************************)
\* AfterEnglish going on whatever generate_english_csv returned
AfterEnglishIgnored(success) == "gen_ja"

\* main after generate_english_csv returned: go on, or sys.exit(1)
AfterEnglish(success) == IF success THEN "gen_ja" ELSE "exit"

\* AfterPrepare going on after an exception of prepare_repositories
AfterPrepareSwallowed(raised) == "gen_en"

\* main after prepare_repositories: go on, or the handler of main exits
AfterPrepare(raised) == IF raised THEN "exit" ELSE "gen_en"

\* lines 13-23: logging, and the output directory
Start ==
    /\ pc = "start"
    /\ \E mkdirRaises \in BOOLEAN :
          /\ obs' = [obs EXCEPT !.mkdirRaised = mkdirRaises]
          /\ pc' = IF mkdirRaises THEN "exit" ELSE "prepare"
          /\ exitCode' = IF mkdirRaises THEN 1 ELSE exitCode
    /\ UNCHANGED <<repoEn, repoJa, csvEn, csvJa, csvMerged, steps, gitLog, mlog,
                   parseIn, parseOut, loaded>>

\* step 1: repo_fetcher.prepare_repositories()
Prepare ==
    /\ pc = "prepare"
    /\ \E enGitOk \in BOOLEAN, jaGitOk \in BOOLEAN :
          LET r == PrepareRepositories(repoEn, repoJa, enGitOk, jaGitOk)
          IN  /\ repoEn' = r.enDir
              /\ repoJa' = r.jaDir
              /\ gitLog' = gitLog \o r.log
              /\ obs' = [obs EXCEPT !.prepRaised = r.raised]
              /\ pc' = AfterPrepare(r.raised)
              /\ exitCode' = IF AfterPrepare(r.raised) = "exit" THEN 1 ELSE exitCode
    /\ steps' = Append(steps, "prepare")
    /\ UNCHANGED <<csvEn, csvJa, csvMerged, mlog, parseIn, parseOut, loaded>>

\* step 2: csv_generator.generate_english_csv()
GenerateEnglish ==
    /\ pc = "gen_en"
    /\ \E versionDir \in BOOLEAN, script \in BOOLEAN, exportOk \in BOOLEAN :
       \E output \in RunOutputs("en", versionDir /\ script, exportOk) :
          LET r == GenerateEnglishCsv(csvEn, versionDir, script, exportOk, output)
          IN  /\ csvEn' = r.file
              /\ obs' = [obs EXCEPT !.enResult = IF r.ok THEN "ok" ELSE "fail"]
              /\ pc' = AfterEnglish(r.ok)
              /\ exitCode' = IF AfterEnglish(r.ok) = "exit" THEN 1 ELSE exitCode
    /\ steps' = Append(steps, "gen_en")
    /\ UNCHANGED <<repoEn, repoJa, csvJa, csvMerged, gitLog, mlog, parseIn, parseOut,
                   loaded>>

\* step 3: csv_generator.generate_japanese_csv(), its result is not looked at
GenerateJapanese ==
    /\ pc = "gen_ja"
    /\ \E versionDir \in BOOLEAN, script \in BOOLEAN, exportOk \in BOOLEAN,
          touchRaises \in BOOLEAN :
       \E output \in RunOutputs("ja", versionDir /\ script, exportOk) :
          LET r == GenerateJapaneseCsv(csvJa, versionDir, script, exportOk, output,
                                       touchRaises)
          IN  /\ csvJa' = r.file
              /\ obs' = [obs EXCEPT
                           !.jaResult = IF r.ok THEN "ok" ELSE "fail",
                           !.jaVersionDir = IF versionDir THEN "present" ELSE "absent",
                           !.touchRaised = ~r.ok /\ touchRaises]
    /\ steps' = Append(steps, "gen_ja")
    /\ pc' = "merge"
    /\ UNCHANGED <<repoEn, repoJa, csvEn, csvMerged, gitLog, exitCode, mlog,
                   parseIn, parseOut, loaded>>

\* step 4: csv_merger.merge_csv_files(); also a call of it on its own
MergeStep ==
    /\ pc = "merge"
    /\ LET dfJa == LoadAndPrepareCsv(csvJa, "ja")
           dfEn == LoadAndPrepareCsv(csvEn, "en")
       IN  \E joinRaises \in BOOLEAN, sortRaises \in BOOLEAN, saveRaises \in BOOLEAN :
              LET r == MergeFrames(dfJa, dfEn, csvMerged,
                                   joinRaises, sortRaises, saveRaises)
              IN  /\ csvMerged' = r.file
                  /\ mlog' = r.log
                  /\ loaded' = [ja |-> dfJa, en |-> dfEn]
    /\ steps' = Append(steps, "merge")
    /\ pc' = "merged"
    /\ UNCHANGED <<repoEn, repoJa, csvEn, csvJa, gitLog, exitCode, obs,
                   parseIn, parseOut>>

\* main returns after the merge: the process ends with status 0
Finish ==
    /\ pc = "merged"
    /\ pc' = "exit"
    /\ exitCode' = 0
    /\ UNCHANGED <<repoEn, repoJa, csvEn, csvJa, csvMerged, steps, gitLog, obs, mlog,
                   parseIn, parseOut, loaded>>

Init ==
    /\ pc = "start"
    /\ repoEn \in BOOLEAN
    /\ repoJa \in BOOLEAN
    /\ csvEn = MissingFile
    /\ csvJa \in EarlierJaFiles
    /\ csvMerged = MissingFile
    /\ steps = <<>>
    /\ gitLog = <<>>
    /\ exitCode = -1
    /\ obs = NoObs
    /\ mlog = NoMergeLog
    /\ parseIn = NaN
    /\ parseOut = NoParse
    /\ loaded = NotLoaded

Next == Start \/ Prepare \/ GenerateEnglish \/ GenerateJapanese \/ MergeStep \/ Finish

Spec == Init /\ [][Next]_vars

(***************************************************************************)
(* A call of merge_csv_files on its own, on any two files.                 *)
(***************************************************************************)
InitMerge ==
    /\ pc = "merge"
    /\ \E nEn \in 0..MaxRows :
          /\ csvEn \in Files("en", nEn)
          /\ csvJa \in Files("ja", MaxRows - nEn)
    /\ csvMerged \in {MissingFile, StaleMerged}
    /\ repoEn = TRUE
    /\ repoJa = TRUE
    /\ steps = <<>>
    /\ gitLog = <<>>
    /\ exitCode = -1
    /\ obs = NoObs
    /\ mlog = NoMergeLog
    /\ parseIn = NaN
    /\ parseOut = NoParse
    /\ loaded = NotLoaded

NextMerge == MergeStep

SpecMerge == InitMerge /\ [][NextMerge]_vars

(***************************************************************************)
(* A call of _parse_req_id on its own, on any short text or non-str value. *)
(***************************************************************************)
Alphabet == {"V", "1", "2", ".", "x"}

Texts == UNION {[1..n -> Alphabet] : n \in 0..MaxIdLen}

ParseStep ==
    /\ pc = "parse"
    /\ parseOut' = [done |-> TRUE, key |-> ParseReqId(parseIn)]
    /\ pc' = "parsed"
    /\ UNCHANGED <<repoEn, repoJa, csvEn, csvJa, csvMerged, steps, gitLog, exitCode,
                   obs, mlog, parseIn, loaded>>

InitParse ==
    /\ pc = "parse"
    /\ parseIn \in {Str(s) : s \in Texts} \cup {NaN, NumberCell}
    /\ parseOut = NoParse
    /\ loaded = NotLoaded
    /\ repoEn = TRUE
    /\ repoJa = TRUE
    /\ csvEn = MissingFile
    /\ csvJa = MissingFile
    /\ csvMerged = MissingFile
    /\ steps = <<>>
    /\ gitLog = <<>>
    /\ exitCode = -1
    /\ obs = NoObs
    /\ mlog = NoMergeLog

NextParse == ParseStep

SpecParse == InitParse /\ [][NextParse]_vars

(***************************************************************************)
(* Properties.  What the files hold is read from the files themselves.     *)
(***************************************************************************)
\* the merged file holds what this run wrote (no earlier file holds that)
Written == csvMerged.kind = "table" /\ csvMerged # StaleMerged

\* the header of a CSV file with the labels trimmed
Trimmed(file) == [j \in 1..Len(file.cols) |-> StripName(file.cols[j])]

\* a file that yields a table: it exists, is not empty, parses, and has req_id
Loadable(file) == file.kind = "table" /\ "req_id" \in Range(Trimmed(file))

\* the req_id texts of the rows of a loadable file, in order
ReqIdsOf(file) ==
    [i \in 1..Len(file.rows) |-> file.rows[i][Pos(Trimmed(file), "req_id")]]

UniqueReqIds(file) == Cardinality(Range(ReqIdsOf(file))) = Len(file.rows)

\* the cell of row i of the merged file under label c
Out(i, c) == csvMerged.rows[i][Pos(csvMerged.cols, c)]

\* the sort key of a cell of a file, as the run read it
KeyOfText(s) == ParseReqId(IF s = <<>> THEN NaN ELSE Str(s))

CanonicalHeader ==
    <<"req_id", "chapter_id", "chapter_name_ja", "chapter_name_en", "section_id",
      "section_name_ja", "section_name_en", "req_description_ja",
      "req_description_en", "level1", "level2", "level3", "cwe", "nist">>

\* C1: whenever merge_csv_files has written the merged CSV, its header is
\* exactly the 14 canonical columns in the canonical order, and every row has
\* a cell for each of them, whatever columns the two inputs had and whichever
\* path led to the write.
C1_CanonicalHeader ==
    (pc = "merged" /\ Written) =>
        /\ csvMerged.cols = CanonicalHeader
        /\ Len(csvMerged.cols) = 14
        /\ \A i \in DOMAIN csvMerged.rows : Len(csvMerged.rows[i]) = 14

\* C1 witness: a write on the degraded path (the join raised, the sort raised)
\* from a Japanese table with an unknown column and most columns missing.
C1_Witness ==
    /\ pc = "merged" /\ Written
    /\ mlog.joinRaised /\ mlog.sortRaised /\ mlog.used = "ja"
    /\ csvJa.cols = LayoutSparse /\ csvEn.cols = LayoutFull
    /\ Len(csvJa.rows) >= 1

\* C2: when both tables load, each with unique req_id values, and the join
\* is made, every req_id of either table is in exactly one row of the merged
\* output; a req_id of one table only has the other language's descriptive
\* fields empty.
C2_EachReqIdOnce ==
    (/\ pc = "merged" /\ Written /\ mlog.used = "join"
     /\ Loadable(csvEn) /\ Loadable(csvJa)
     /\ UniqueReqIds(csvEn) /\ UniqueReqIds(csvJa)) =>
        \A id \in Range(ReqIdsOf(csvEn)) \cup Range(ReqIdsOf(csvJa)) :
            /\ Cardinality({i \in DOMAIN csvMerged.rows : Out(i, "req_id") = id}) = 1
            /\ \A i \in DOMAIN csvMerged.rows :
                  Out(i, "req_id") = id =>
                     /\ id \notin Range(ReqIdsOf(csvJa)) =>
                           Out(i, "req_description_ja") = <<>>
                     /\ id \notin Range(ReqIdsOf(csvEn)) =>
                           Out(i, "req_description_en") = <<>>

\* C2 failing run: both tables hold the one requirement V2.1.2, with cwe 7 in
\* the English file and cwe 8 in the Japanese file; the join is made and the
\* written output has two rows for V2.1.2.
C2_FailingRun ==
    /\ pc = "merged" /\ Written /\ mlog.used = "join" /\ ~mlog.joinRaised
    /\ csvEn = TableFile(LayoutFull, <<MkRow(LayoutFull, "en", IdV212, <<"7">>)>>)
    /\ csvJa = TableFile(LayoutFull, <<MkRow(LayoutFull, "ja", IdV212, <<"8">>)>>)
    /\ Len(csvMerged.rows) = 2
    /\ \A i \in DOMAIN csvMerged.rows : Out(i, "req_id") = IdV212

\* the rows of the merged file are in ascending order of the parsed triple,
\* the rows without a parsable req_id after all others
SortedOutput ==
    \A i, j \in DOMAIN csvMerged.rows :
        i < j =>
            /\ ~KeyLt(KeyOfText(Out(j, "req_id")), KeyOfText(Out(i, "req_id")))
            /\ KeyOfText(Out(i, "req_id")) = Sentinel =>
                  KeyOfText(Out(j, "req_id")) = Sentinel

\* C3 as claimed: the rows of every written merged CSV are sorted.
C3_AlwaysSorted == (pc = "merged" /\ Written) => SortedOutput

\* C3 amended: the rows of the written merged CSV are sorted by the parsed
\* triple, unparsable and missing req_id values last, in every run in which
\* the sort step does not raise; when it raises, the rows are written in the
\* order they had.  Rows with an unparsable req_id are written like the rest.
C3_SortedUnlessSortRaised ==
    (pc = "merged" /\ Written) =>
        /\ ~mlog.sortRaised => SortedOutput
        /\ mlog.used = "en" =>
              \A id \in Range(ReqIdsOf(csvEn)) :
                  \E i \in DOMAIN csvMerged.rows : Out(i, "req_id") = id

\* C3 witness: V2.1.10 and an unparsable req_id were read before V2.1.2, and
\* the written rows are V2.1.2, V2.1.10, then the unparsable one.
C3_Witness ==
    /\ pc = "merged" /\ Written /\ ~mlog.sortRaised /\ mlog.used = "join"
    /\ Loadable(csvJa) /\ Loadable(csvEn)
    /\ ReqIdsOf(csvJa) = <<IdBad>>
    /\ ReqIdsOf(csvEn) = <<IdV2110, IdV212>>
    /\ [i \in 1..Len(csvMerged.rows) |-> Out(i, "req_id")] = <<IdV212, IdV2110, IdBad>>

C7_NoOutputWhenBothAbsent ==
    [][(pc = "merge" /\ ~Loadable(csvEn) /\ ~Loadable(csvJa)) =>
          /\ csvMerged' = csvMerged
          /\ mlog'.neitherError
          /\ ~mlog'.saveReached
          /\ pc' = "merged"]_vars

\* C7 witness: a merged file of an earlier run is still there after a run on
\* a Japanese table without req_id and an unreadable English file.
C7_Witness ==
    /\ pc = "merged" /\ mlog.neitherError
    /\ csvMerged = StaleMerged
    /\ csvJa.kind = "table" /\ csvJa.cols = LayoutNoKey
    /\ csvEn.kind = "garbage"

\* a git clone that failed
FailedClone == \E i \in DOMAIN gitLog : gitLog[i].cmd = "clone" /\ ~gitLog[i].ok

\* C4 as claimed: the exit status is non-zero exactly when the English export
\* failed.
C4_NonZeroIffEnglishFailed ==
    pc = "exit" => (exitCode # 0 <=> obs.enResult = "fail")

\* C4 amended: the exit status is non-zero exactly when creating the output
\* directory raised, a clone failed in repository preparation, or the English
\* export failed; otherwise it is zero, whatever the Japanese export, the
\* merge and the write of the merged file did.
C4_ExitStatus ==
    pc = "exit" =>
        /\ exitCode \in {0, 1}
        /\ exitCode = 1 <=> (obs.mkdirRaised \/ FailedClone \/ obs.enResult = "fail")

\* C4 witness: status 0 after a failed Japanese export and a failed save.
C4_Witness ==
    /\ pc = "exit" /\ exitCode = 0
    /\ obs.jaResult = "fail" /\ mlog.saveRaised /\ ~Written

\* C5: in a run where the Japanese source directory of the version is absent
\* (and creating the placeholder does not itself fail), after
\* generate_japanese_csv the Japanese CSV is a zero-length file whatever was
\* there before, the merge loads the Japanese side as absent and uses the
\* English table alone, and the written rows are the English rows.
C5_PlaceholderWhenSourceAbsent ==
    (obs.jaVersionDir = "absent" /\ ~obs.touchRaised) =>
        /\ csvJa = EmptyFile
        /\ pc \in {"merged", "exit"} =>
              /\ ~mlog.jaLoaded
              /\ mlog.saveReached => mlog.used = "en"
              /\ Written =>
                    /\ Len(csvMerged.rows) = Len(csvEn.rows)
                    /\ \A i \in DOMAIN csvMerged.rows :
                          Out(i, "req_description_ja") = <<>>

\* C5 failing run: the Japanese source directory is absent, the Japanese CSV
\* of an earlier run is still at its path after generate_japanese_csv, and the
\* merge loads it and joins it with the English table.
C5_FailingRun ==
    /\ obs.jaVersionDir = "absent" /\ ~obs.touchRaised
    /\ pc = "merged"
    /\ csvJa.kind = "table" /\ Len(csvJa.rows) = 1
    /\ mlog.jaLoaded /\ mlog.used = "join"
    /\ Written

MainOrder == <<"prepare", "gen_en", "gen_ja", "merge">>

\* C8: main starts its steps in the order preparation, English export,
\* Japanese export, merge, each at most once; the Japanese export and the
\* merge start only after the English export returned success, the merge only
\* after the Japanese export returned, and after a failed clone no later step
\* starts.
C8_StepOrder ==
    /\ Len(steps) <= Len(MainOrder)
    /\ steps = SubSeq(MainOrder, 1, Len(steps))
    /\ Len(steps) >= 3 => obs.enResult = "ok"
    /\ Len(steps) >= 4 => obs.jaResult \in {"ok", "fail"}
    /\ FailedClone => steps = <<"prepare">> /\ pc = "exit"
    /\ obs.enResult = "fail" => steps = <<"prepare", "gen_en">> /\ pc = "exit"

\* C8 witness: all four steps ran, the Japanese export having failed.
C8_Witness ==
    /\ pc = "exit" /\ steps = MainOrder
    /\ obs.enResult = "ok" /\ obs.jaResult = "fail"

\* C9: each repository gets one git command: a clone when its directory is
\* absent, an update otherwise; a failed clone ends the preparation with an
\* error (after a failed English clone the Japanese repository is not
\* touched); a failed update does not: the next repository is prepared and
\* main goes on.
C9_CloneOrUpdate ==
    /\ Len(gitLog) <= 2
    /\ \A i \in DOMAIN gitLog :
          /\ gitLog[i].repo = IF i = 1 THEN "en" ELSE "ja"
          /\ gitLog[i].cmd = IF gitLog[i].dirBefore THEN "pull" ELSE "clone"
          /\ (gitLog[i].cmd = "clone" /\ ~gitLog[i].ok) =>
                /\ i = Len(gitLog)
                /\ obs.prepRaised /\ pc = "exit" /\ exitCode = 1
    /\ (steps # <<>> /\ ~FailedClone) =>
          /\ Len(gitLog) = 2
          /\ ~obs.prepRaised
          /\ Len(steps) = 1 => pc = "gen_en"

\* C9 witness: the update of the English repository failed, the Japanese
\* repository was cloned, and main went on to the English export.
C9_Witness ==
    /\ Len(gitLog) = 2
    /\ gitLog[1].cmd = "pull" /\ ~gitLog[1].ok
    /\ gitLog[2].cmd = "clone" /\ gitLog[2].ok
    /\ "gen_en" \in Range(steps)

\* the text is V<digits>.<digits>.<digits> and nothing else, the dots at i and j
WellFormedAt(s, i, j) ==
    /\ 2 < i /\ i + 1 < j /\ j < Len(s)
    /\ s[1] = "V" /\ s[i] = "." /\ s[j] = "."
    /\ \A k \in (2..Len(s)) \ {i, j} : IsDigit(s[k])

WellFormed(s) == \E i, j \in 1..Len(s) : WellFormedAt(s, i, j)

\* the three integers of a well-formed identifier
TripleOf(s) ==
    LET ij == CHOOSE ij \in (1..Len(s)) \X (1..Len(s)) : WellFormedAt(s, ij[1], ij[2])
    IN  <<Fin(ToInt(SubSeq(s, 2, ij[1] - 1))),
          Fin(ToInt(SubSeq(s, ij[1] + 1, ij[2] - 1))),
          Fin(ToInt(SubSeq(s, ij[2] + 1, Len(s))))>>

\* C10: _parse_req_id returns the three integers of a text of the form
\* V<digits>.<digits>.<digits>, which are less than the sentinel, and the
\* sentinel for every other value: a non-str, the empty text, a malformed text,
\* a text with characters before or after the identifier.
C10_SentinelUnlessWellFormed ==
    parseOut.done =>
        IF parseIn.isStr /\ WellFormed(parseIn.s)
        THEN parseOut.key = TripleOf(parseIn.s) /\ KeyLt(parseOut.key, Sentinel)
        ELSE parseOut.key = Sentinel

\* C10 failing run: the text V1.1.1x, an identifier followed by one more
\* character, is parsed to (1, 1, 1) and not to the sentinel.
C10_FailingRun ==
    /\ parseOut.done
    /\ parseIn = Str(<<"V", "1", ".", "1", ".", "1", "x">>)
    /\ parseOut.key = <<Fin(1), Fin(1), Fin(1)>>

Unsuffixed == {"chapter_name", "section_name", "req_description"}

\* what C11 says of the table df returned for the file of language lang
LoaderResult(file, lang, df) ==
    IF Loadable(file)
    THEN /\ df.present
         /\ "req_id" \in Range(df.cols)
         /\ Range(df.cols) \cap Unsuffixed = {}
         /\ \A c \in Unsuffixed :
               c \in Range(Trimmed(file)) => (c \o "_" \o lang) \in Range(df.cols)
         /\ Len(df.cols) = Len(file.cols)
         /\ Len(df.rows) = Len(file.rows)
    ELSE df = NoFrame

\* C11: _load_and_prepare_csv returns the absent result, and returns normally,
\* for a file that does not exist, has zero length, cannot be parsed or has no
\* req_id column once the column names are trimmed; for every other file it
\* returns a table with a req_id column in which chapter_name, section_name
\* and req_description appear only under their language-suffixed names.
C11_LoaderAbsentOrPrepared ==
    pc = "merged" =>
        /\ LoaderResult(csvJa, "ja", loaded.ja)
        /\ LoaderResult(csvEn, "en", loaded.en)
        /\ mlog.jaLoaded = loaded.ja.present
        /\ mlog.enLoaded = loaded.en.present

\* C11 witness: the Japanese file has req_id only after trimming and is
\* loaded with req_description renamed; the English file is a table without
\* req_id and is loaded as absent.
C11_Witness ==
    /\ pc = "merged"
    /\ csvJa.kind = "table" /\ csvJa.cols = LayoutSparse /\ Len(csvJa.rows) >= 1
    /\ loaded.ja.present
    /\ loaded.ja.cols = <<"req_id", "req_description_ja", "note">>
    /\ csvEn.kind = "table" /\ csvEn.cols = LayoutNoKey
    /\ loaded.en = NoFrame

\* the written rows are those of the one file of language lang: as many rows,
\* the same req_id values as often, the descriptive fields of lang taken from
\* the file and those of the other language empty
OutputIsTableOf(file, lang, other) ==
    /\ Len(csvMerged.rows) = Len(file.rows)
    /\ \A id \in Range(ReqIdsOf(file)) \cup {Out(i, "req_id") : i \in DOMAIN csvMerged.rows} :
          Cardinality({i \in DOMAIN csvMerged.rows : Out(i, "req_id") = id})
            = Cardinality({i \in DOMAIN file.rows : ReqIdsOf(file)[i] = id})
    /\ \A i \in DOMAIN csvMerged.rows :
          /\ \A c \in Unsuffixed : Out(i, c \o "_" \o other) = <<>>
          /\ "req_description" \in Range(Trimmed(file)) =>
                \E k \in DOMAIN file.rows :
                    /\ ReqIdsOf(file)[k] = Out(i, "req_id")
                    /\ file.rows[k][Pos(Trimmed(file), "req_description")]
                         = Out(i, "req_description_" \o lang)

\* what merge_csv_files writes for the single table df: sorted unless the
\* sort raised, then projected on the final columns
WrittenFrom(df) ==
    ToCsv(Reindex(IF mlog.sortRaised THEN df ELSE SortByReqId(df)))

\* C12: when both tables are present and the join raises, merge_csv_files goes
\* on as in the single-table case with the Japanese table as the result, and
\* sorts, projects and writes it; when only one table is present, no join is
\* attempted and that table is the result; when both are present the join is
\* attempted.
C12_JoinFailureDegrades ==
    pc = "merged" =>
        /\ mlog.joinTried <=> (loaded.ja.present /\ loaded.en.present)
        /\ mlog.joinRaised =>
              /\ mlog.joinTried /\ mlog.used = "ja"
              /\ mlog.saveReached /\ ~mlog.neitherError
              /\ Written => (csvMerged = WrittenFrom(loaded.ja)
                             /\ OutputIsTableOf(csvJa, "ja", "en"))
        /\ (loaded.ja.present /\ ~loaded.en.present) =>
              /\ mlog.used = "ja" /\ mlog.saveReached
              /\ Written => (csvMerged = WrittenFrom(loaded.ja)
                             /\ OutputIsTableOf(csvJa, "ja", "en"))
        /\ (loaded.en.present /\ ~loaded.ja.present) =>
              /\ mlog.used = "en" /\ mlog.saveReached
              /\ Written => (csvMerged = WrittenFrom(loaded.en)
                             /\ OutputIsTableOf(csvEn, "en", "ja"))

\* C12 witness: both tables are present, the join raised, and the two rows of
\* the Japanese file, read as V2.1.10 then V2.1.2, are written sorted with no
\* row of the English file.
C12_Witness ==
    /\ pc = "merged" /\ Written
    /\ mlog.joinRaised /\ ~mlog.sortRaised
    /\ loaded.ja.present /\ loaded.en.present
    /\ ReqIdsOf(csvJa) = <<IdV2110, IdV212>>
    /\ Len(csvEn.rows) = 1
    /\ [i \in 1..Len(csvMerged.rows) |-> Out(i, "req_id")] = <<IdV212, IdV2110>>
    /\ \A i \in DOMAIN csvMerged.rows : Out(i, "req_description_ja") = LangText("ja")

====
